---- MODULE Spec2Model ----
(***************************************************************************)
(* Transcript acquisition engine (backend/video_agent.py) and its drivers  *)
(* (backend/app.py).                                                       *)
(*                                                                         *)
(* Representation.  A text (caption body, transcript, error message) is a  *)
(* sequence of tokens; a token is a word, a whitespace character, a digit  *)
(* run, or one of the markup characters "<" and ">".  Substring tests are  *)
(* contiguous-subsequence tests on tokens.  Short strings (titles, ids,    *)
(* hosts) are TLA+ strings; Python's None is NoneStr for them and the      *)
(* empty sequence for optional integers.                                   *)
(***************************************************************************)
EXTENDS Integers, Sequences, FiniteSets, TLC

\* Largest number of references in one batch or playlist request.
MaxBatch == 2

NoneStr == "<None>"
NoneInt == <<>>
SomeInt(n) == <<n>>

\* Python truthiness of an optional string: None and "" are falsy.
Truthy(s) == s # NoneStr /\ s # ""

\* a or b, on optional strings.
Or(a, b) == IF Truthy(a) THEN a ELSE b

----------------------------------------------------------------------------
\* Texts

Whitespace == {" ", "\n", "\t"}

\* str.lower() on one token.
LowerToken(t) ==
    CASE t = "CAPTCHA" -> "captcha"
      [] t = "Captcha" -> "captcha"
      [] t = "Unusual" -> "unusual"
      [] t = "Traffic" -> "traffic"
      [] t = "We're"   -> "we're"
      [] t = "Sorry"   -> "sorry"
      [] t = "Error:"  -> "error:"
      [] t = "ERROR:"  -> "error:"
      [] t = "Hello"   -> "hello"
      [] OTHER         -> t

lower(text) == [i \in DOMAIN text |-> LowerToken(text[i])]

\* pattern in text
Contains(text, pattern) ==
    \E i \in 0..(Len(text) - Len(pattern)) :
        SubSeq(text, i + 1, i + Len(pattern)) = pattern

startswith(text, prefix) ==
    /\ Len(text) >= Len(prefix)
    /\ SubSeq(text, 1, Len(prefix)) = prefix

RECURSIVE lstrip(_)
lstrip(text) ==
    IF text # <<>> /\ Head(text) \in Whitespace THEN lstrip(Tail(text)) ELSE text

RECURSIVE rstrip(_)
rstrip(text) ==
    IF text # <<>> /\ text[Len(text)] \in Whitespace
    THEN rstrip(SubSeq(text, 1, Len(text) - 1))
    ELSE text

strip(text) == rstrip(lstrip(text))

\* sep.join(parts), parts a sequence of texts
RECURSIVE join(_, _)
join(sep, parts) ==
    IF parts = <<>> THEN <<>>
    ELSE IF Len(parts) = 1 THEN parts[1]
    ELSE parts[1] \o sep \o join(sep, Tail(parts))

\* text.splitlines(): the lines between "\n" tokens, no trailing empty line
RECURSIVE splitlines(_)
splitlines(text) ==
    IF text = <<>> THEN <<>>
    ELSE LET nl == {i \in DOMAIN text : text[i] = "\n"}
         IN  IF nl = {} THEN <<text>>
             ELSE LET k == CHOOSE i \in nl : \A j \in nl : i <= j
                  IN  <<SubSeq(text, 1, k - 1)>>
                          \o splitlines(SubSeq(text, k + 1, Len(text)))

SUSPECT_PATTERNS ==
    { <<"we're", " ", "sorry">>,
      <<"unusual", " ", "traffic">>,
      <<"automated", " ", "queries">>,
      <<"client", " ", "does", " ", "not", " ", "have", " ", "permission">>,
      <<"captcha">> }

is_suspect_content(text) ==
    LET lowered == lower(text)
    IN  \E pattern \in SUSPECT_PATTERNS : Contains(lowered, pattern)

\* re.sub(r'<[^>]+>', '', line): leftmost match first; a "<" starts a match
\* when the first ">" after it is at least two tokens away.
RECURSIVE strip_tags(_)
strip_tags(line) ==
    IF line = <<>> THEN <<>>
    ELSE IF Head(line) # "<" THEN <<Head(line)>> \o strip_tags(Tail(line))
    ELSE LET gt == {i \in 2..Len(line) : line[i] = ">"}
         IN  IF gt = {} THEN line
             ELSE LET k == CHOOSE i \in gt : \A j \in gt : i <= j
                  IN  IF k = 2
                      THEN <<"<">> \o strip_tags(Tail(line))
                      ELSE strip_tags(SubSeq(line, k + 1, Len(line)))

Digits == {"0", "1", "2", "7", "12", "42"}

\* re.match(r'^\d+$', line)
is_cue_index(line) == line # <<>> /\ \A i \in DOMAIN line : line[i] \in Digits

\* The line is not stripped of its surrounding whitespace.
vtt_line_NoStrip(raw) ==
    LET line == strip_tags(raw)
    IN  IF strip(line) = <<>> THEN <<>>
        ELSE IF startswith(line, <<"WEBVTT">>) THEN <<>>
        ELSE IF Contains(line, <<"-->">>) THEN <<>>
        ELSE IF is_cue_index(line) THEN <<>>
        ELSE line

\* One line of vtt_to_text: the cleaned line, or <<>> when the line is dropped.
vtt_line(raw) ==
    LET line == strip(strip_tags(raw))
    IN  IF line = <<>> THEN <<>>
        ELSE IF startswith(line, <<"WEBVTT">>) THEN <<>>
        ELSE IF Contains(line, <<"-->">>) THEN <<>>
        ELSE IF is_cue_index(line) THEN <<>>
        ELSE line

vtt_to_text(vtt) ==
    LET raw   == splitlines(vtt)
        kept  == SelectSeq([i \in DOMAIN raw |-> vtt_line(raw[i])],
                           LAMBDA l : l # <<>>)
    IN  join(<<" ">>, kept)

----------------------------------------------------------------------------
\* Video references

\* A reference  scheme prefix host [ "/" path[1] "/" path[2] ... ] [ "?v=" v ]
\* path = <<>> means that no "/" follows the host; v = NoneStr that there is
\* no query.
EmptyUrl == [scheme |-> "", prefix |-> "", host |-> "", path |-> <<>>, v |-> NoneStr]
NoneUrl  == [scheme |-> "", prefix |-> "", host |-> NoneStr, path |-> <<>>, v |-> NoneStr]

TruthyUrl(u) == u # NoneUrl /\ u # EmptyUrl

OrUrl(a, b) == IF TruthyUrl(a) THEN a ELSE b

\* re.match(r'^(https?://)?(www\.)?(youtube\.com|youtu\.?be)/.+$', url)
is_valid_youtube_url(url) ==
    /\ url.scheme \in {"", "http://", "https://"}
    /\ url.prefix \in {"", "www."}
    /\ url.host \in {"youtube.com", "youtu.be", "youtube"}
    /\ url.path # <<>>
    /\ \/ url.path[1] # ""
       \/ Len(url.path) >= 2
       \/ url.v # NoneStr

\* urlparse(url).hostname: there is a network location only after "//".
hostname(url) ==
    IF url.scheme \in {"http://", "https://", "ftp://"}
    THEN url.prefix \o url.host
    ELSE NoneStr

\* 'youtube' in hostname
has_youtube(url) == url.host \in {"youtube.com", "youtube", "youtube.evil.org"}

RECURSIVE join_path(_)
join_path(segs) ==
    IF segs = <<>> THEN ""
    ELSE IF Len(segs) = 1 THEN segs[1]
    ELSE segs[1] \o "/" \o join_path(Tail(segs))

\* parsed.path.lstrip('/')
RECURSIVE lstrip_slashes(_)
lstrip_slashes(segs) ==
    IF segs # <<>> /\ Head(segs) = "" THEN lstrip_slashes(Tail(segs))
    ELSE join_path(segs)

extract_video_id(url) ==
    IF hostname(url) = "youtu.be" THEN lstrip_slashes(url.path)
    ELSE IF hostname(url) # NoneStr /\ hostname(url) # "" /\ has_youtube(url)
    THEN IF Truthy(url.v) THEN url.v
         ELSE LET parts == IF url.path = <<>> THEN <<"">> ELSE <<"">> \o url.path
                  hits  == {i \in DOMAIN parts :
                               parts[i] \in {"embed", "v"} /\ i + 1 <= Len(parts)}
              IN  IF hits = {} THEN ""
                  ELSE parts[(CHOOSE i \in hits : \A j \in hits : i <= j) + 1]
    ELSE ""

----------------------------------------------------------------------------
\* Metadata

DigitStr == <<"0", "1", "2", "3", "4", "5", "6", "7", "8", "9">>

RECURSIVE Dec(_)
Dec(n) == IF n < 10 THEN DigitStr[n + 1] ELSE Dec(n \div 10) \o DigitStr[(n % 10) + 1]

\* f"{n:02d}"
Pad2(n) == IF n < 10 THEN "0" \o Dec(n) ELSE Dec(n)

format_duration(seconds) ==
    IF seconds = NoneInt THEN NoneStr
    ELSE IF seconds[1] < 0 THEN NoneStr
    ELSE LET hours     == seconds[1] \div 3600
             remainder == seconds[1] % 3600
             minutes   == remainder \div 60
             secs      == remainder % 60
         IN  IF hours # 0
             THEN Pad2(hours) \o ":" \o Pad2(minutes) \o ":" \o Pad2(secs)
             ELSE Pad2(minutes) \o ":" \o Pad2(secs)

\* The result of a failed info lookup.
NoInfo == [none |-> TRUE]

NewMetadata(video_url) ==
    [title |-> NoneStr, channel |-> NoneStr, duration |-> NoneStr,
     duration_seconds |-> NoneInt, url |-> video_url]

\* The channel is taken from info["channel"] alone.
update_metadata_NoUploader(info, metadata) ==
    IF info = NoInfo THEN metadata
    ELSE LET channel == info.channel
             m1 == [metadata EXCEPT
                      !.url = OrUrl(metadata.url, OrUrl(info.webpage_url, info.original_url))]
             m2 == IF Truthy(info.title) /\ ~Truthy(m1.title)
                   THEN [m1 EXCEPT !.title = info.title] ELSE m1
             m3 == IF Truthy(channel) /\ ~Truthy(m2.channel)
                   THEN [m2 EXCEPT !.channel = channel] ELSE m2
         IN  IF info.duration = NoneInt THEN m3
             ELSE LET m4 == [m3 EXCEPT !.duration_seconds = info.duration]
                  IN  IF ~Truthy(m4.duration)
                      THEN [m4 EXCEPT !.duration = format_duration(info.duration)]
                      ELSE m4

\* The info's webpage URL or original URL replaces the url already set.
update_metadata_PreferInfoUrl(info, metadata) ==
    IF info = NoInfo THEN metadata
    ELSE LET channel == Or(info.uploader, info.channel)
             m1 == [metadata EXCEPT
                      !.url = OrUrl(info.webpage_url, OrUrl(info.original_url, metadata.url))]
             m2 == IF Truthy(info.title) /\ ~Truthy(m1.title)
                   THEN [m1 EXCEPT !.title = info.title] ELSE m1
             m3 == IF Truthy(channel) /\ ~Truthy(m2.channel)
                   THEN [m2 EXCEPT !.channel = channel] ELSE m2
         IN  IF info.duration = NoneInt THEN m3
             ELSE LET m4 == [m3 EXCEPT !.duration_seconds = info.duration]
                  IN  IF ~Truthy(m4.duration)
                      THEN [m4 EXCEPT !.duration = format_duration(info.duration)]
                      ELSE m4

\* duration_seconds is written only while it is unset.
update_metadata_FirstSeconds(info, metadata) ==
    IF info = NoInfo THEN metadata
    ELSE LET channel == Or(info.uploader, info.channel)
             m1 == [metadata EXCEPT
                      !.url = OrUrl(metadata.url, OrUrl(info.webpage_url, info.original_url))]
             m2 == IF Truthy(info.title) /\ ~Truthy(m1.title)
                   THEN [m1 EXCEPT !.title = info.title] ELSE m1
             m3 == IF Truthy(channel) /\ ~Truthy(m2.channel)
                   THEN [m2 EXCEPT !.channel = channel] ELSE m2
         IN  IF info.duration = NoneInt THEN m3
             ELSE LET m4 == IF m3.duration_seconds = NoneInt
                            THEN [m3 EXCEPT !.duration_seconds = info.duration] ELSE m3
                  IN  IF ~Truthy(m4.duration)
                      THEN [m4 EXCEPT !.duration = format_duration(info.duration)]
                      ELSE m4

\* The channel is written whenever the info has one.
update_metadata_OverwriteChannel(info, metadata) ==
    IF info = NoInfo THEN metadata
    ELSE LET channel == Or(info.uploader, info.channel)
             m1 == [metadata EXCEPT
                      !.url = OrUrl(metadata.url, OrUrl(info.webpage_url, info.original_url))]
             m2 == IF Truthy(info.title) /\ ~Truthy(m1.title)
                   THEN [m1 EXCEPT !.title = info.title] ELSE m1
             m3 == IF Truthy(channel)
                   THEN [m2 EXCEPT !.channel = channel] ELSE m2
         IN  IF info.duration = NoneInt THEN m3
             ELSE LET m4 == [m3 EXCEPT !.duration_seconds = info.duration]
                  IN  IF ~Truthy(m4.duration)
                      THEN [m4 EXCEPT !.duration = format_duration(info.duration)]
                      ELSE m4

\* Lines 110-124.
update_metadata_from_info(info, metadata) ==
    IF info = NoInfo THEN metadata
    ELSE LET channel == Or(info.uploader, info.channel)
             m1 == [metadata EXCEPT
                      !.url = OrUrl(metadata.url, OrUrl(info.webpage_url, info.original_url))]
             m2 == IF Truthy(info.title) /\ ~Truthy(m1.title)
                   THEN [m1 EXCEPT !.title = info.title] ELSE m1
             m3 == IF Truthy(channel) /\ ~Truthy(m2.channel)
                   THEN [m2 EXCEPT !.channel = channel] ELSE m2
         IN  IF info.duration = NoneInt THEN m3
             ELSE LET m4 == [m3 EXCEPT !.duration_seconds = info.duration]
                  IN  IF ~Truthy(m4.duration)
                      THEN [m4 EXCEPT !.duration = format_duration(info.duration)]
                      ELSE m4

----------------------------------------------------------------------------
\* Values returned by get_transcript

INVALID_URL_ERROR == <<"Error:", " ", "Invalid", " ", "YouTube", " ", "URL">>
RATE_LIMIT_ERROR ==
    <<"Error:", " ", "YouTube", " ", "rate-limited", " ", "the", " ", "caption",
      " ", "request.", " ", "Please", " ", "wait", " ", "and", " ", "try", " ", "again.">>
IP_BLOCKED_ERROR ==
    <<"Error:", " ", "YouTube", " ", "blocked", " ", "transcript", " ", "access",
      " ", "for", " ", "this", " ", "IP.", " ", "Provide", " ", "a", " ", "proxy",
      " ", "or", " ", "browser", " ", "cookies", " ", "and", " ", "try", " ", "again.">>
NO_CAPTIONS_ERROR ==
    <<"Error:", " ", "No", " ", "captions", " ", "available", " ", "for", " ",
      "this", " ", "video">>

----------------------------------------------------------------------------
\* The collaborators: what they can answer

Ref(scheme, prefix, host, path, v) ==
    [scheme |-> scheme, prefix |-> prefix, host |-> host, path |-> path, v |-> v]

R_watch    == Ref("https://", "www.", "youtube.com", <<"watch">>, "abc123")
R_short    == Ref("https://", "", "youtu.be", <<"abc123">>, NoneStr)
R_embed    == Ref("http://", "", "youtube.com", <<"embed", "abc123">>, NoneStr)
R_noscheme == Ref("", "www.", "youtube.com", <<"watch">>, "abc123")
R_wwwshort == Ref("https://", "www.", "youtu.be", <<"abc123">>, NoneStr)
R_bare     == Ref("https://", "", "youtube.com", <<>>, NoneStr)
R_slash    == Ref("https://", "", "youtube.com", <<"">>, NoneStr)
R_vimeo    == Ref("https://", "", "vimeo.com", <<"123">>, NoneStr)
R_ftp      == Ref("ftp://", "", "youtube.com", <<"watch">>, "abc123")
R_mobile   == Ref("https://", "m.", "youtube.com", <<"watch">>, "abc123")

\* References of a single-video request, and of a batch or playlist.
VideoRefs == {R_watch, R_short, R_embed, R_noscheme, R_wwwshort,
              R_bare, R_slash, R_vimeo, R_ftp, R_mobile}
BatchRefs == {R_short, R_vimeo}

Track(ext, url) == [ext |-> ext, url |-> url]

NoCaptions == [l \in {} |-> <<>>]

Captions ==
    { [automatic_captions |-> NoCaptions, subtitles |-> NoCaptions],
      [automatic_captions |-> [l \in {"en"} |-> <<Track("vtt", "u1")>>],
       subtitles |-> NoCaptions],
      [automatic_captions |->
           [l \in {"en"} |-> <<Track("json3", "u0"), Track("vtt", "u1"),
                               Track("srv3", "u2")>>],
       subtitles |-> [l \in {"en-GB"} |-> <<Track("srv1", "u3")>>]],
      [automatic_captions |->
           [l \in {"fr", "en-US"} |->
               IF l = "fr" THEN <<Track("vtt", "u4")>> ELSE <<Track("vtt", "")>>],
       subtitles |-> [l \in {"en"} |-> <<Track("vtt", "u5")>>]],
      [automatic_captions |->
           [l \in {"en-GB", "en"} |->
               IF l = "en" THEN <<Track("vtt", "u1")>> ELSE <<Track("vtt", "u6")>>],
       subtitles |-> NoCaptions] }

Meta(title, uploader, channel, duration, webpage_url, original_url) ==
    [title |-> title, uploader |-> uploader, channel |-> channel,
     duration |-> duration, webpage_url |-> webpage_url,
     original_url |-> original_url]

Metas ==
    { Meta("X", "U", "Ch", SomeInt(65), R_watch, NoneUrl),
      Meta("Y", NoneStr, "Ch2", SomeInt(3725), NoneUrl, R_embed),
      Meta(NoneStr, "", NoneStr, NoneInt, NoneUrl, NoneUrl),
      Meta("", NoneStr, "Ch", SomeInt(0 - 5), NoneUrl, NoneUrl),
      Meta("X", "U2", NoneStr, SomeInt(0), R_watch, R_embed) }

Info(m, c) ==
    [title |-> m.title, uploader |-> m.uploader, channel |-> m.channel,
     duration |-> m.duration, webpage_url |-> m.webpage_url,
     original_url |-> m.original_url,
     automatic_captions |-> c.automatic_captions, subtitles |-> c.subtitles]

Infos == {Info(m, c) : m \in Metas, c \in Captions}

MetaOf(info) ==
    Meta(info.title, info.uploader, info.channel, info.duration,
         info.webpage_url, info.original_url)

BatchInfos ==
    { Info(Meta("X", "U", "Ch", SomeInt(65), R_watch, NoneUrl),
           [automatic_captions |-> [l \in {"en"} |-> <<Track("vtt", "u1")>>],
            subtitles |-> NoCaptions]),
      Info(Meta(NoneStr, NoneStr, NoneStr, NoneInt, NoneUrl, NoneUrl),
           [automatic_captions |-> NoCaptions, subtitles |-> NoCaptions]) }

\* Bodies a caption-track GET can answer with status 200.
Bodies ==
    { <<>>,
      <<"#EXTM3U", "\n", "segment">>,
      <<"WEBVTT", "\n", "\n", "1", "\n", "00:01", " ", "-->", " ", "00:02", "\n",
        "<", "c", ">", "Hello", "<", "/c", ">", " ", "world", "\n">>,
      <<"WEBVTT", "\n", " ", "\n", "7", "\n">>,
      <<"<", "html", ">", "Please", " ", "solve", " ", "the", " ", "CAPTCHA">>,
      <<"We're", "\n", "Sorry">>,
      <<"Error:", " ", "Hello">> }

\* Exceptions of a caption-track GET (session.get or raise_for_status).
HTTPError(status) == [type |-> "HTTPError", status |-> status]
GetExceptions ==
    { HTTPError("429"), HTTPError("404"), HTTPError("None"),
      [type |-> "Timeout", status |-> "None"],
      [type |-> "ConnectionError", status |-> "None"] }

\* Answers of the transcript service: caption chunks (their text fields) ...
ApiEntries ==
    { <<>>,
      << <<"Hello">>, <<"world">> >>,
      << <<" ">>, <<"\n">> >>,
      << <<"unusual">>, <<"Traffic">> >>,
      << <<"Error:">>, <<"Hello">> >> }

\* ... or an exception.
ApiExceptions ==
    {"TranscriptsDisabled", "NoTranscriptFound", "IpBlocked", "RequestBlocked",
     "AttributeError"}

----------------------------------------------------------------------------
\* State

VARIABLES
    driver,          \* the endpoint serving the request: "video", "batch", "playlist"
    video_urls,      \* the references of the request, in input order
    idx,             \* number of references whose acquisition was started
    results,         \* the driver's results list
    errors,          \* the driver's errors list
    response,        \* the HTTP response, once sent
    pc,              \* position in the driver and in get_transcript
    video_url,       \* get_transcript's argument
    metadata,        \* get_transcript's metadata dict
    rate_limited,    \* get_transcript's rate_limited flag
    ip_blocked,      \* get_transcript's ip_blocked flag
    infoA,           \* Strategy A's info dict, NoInfo if none
    candidates,      \* Strategy A: tracks still to be fetched, in order
    transcript_text, \* Strategy B's text, while the backfill is pending
    ret,             \* what get_transcript returned
    calls,           \* the network operations of this acquisition, in order
    session,         \* the HTTP session: "none", "open", "closed"
    vtt,             \* vtt_to_text's argument, when the decoder is run on its own
    decoded,         \* the texts returned by successive runs of vtt_to_text
    merged,          \* the infos merged into metadata, when the merge is run on its own
    extracted        \* what extract_video_id returned, when it is run on its own

dec  == <<vtt, decoded, merged, extracted>>
drv  == <<driver, video_urls, idx, results, errors, response>>
acq  == <<video_url, metadata, infoA, rate_limited, ip_blocked, candidates,
          transcript_text, ret, calls, session>>
vars == <<driver, video_urls, idx, results, errors, response, pc, video_url,
          metadata, infoA, rate_limited, ip_blocked, candidates, transcript_text,
          ret, calls, session, vtt, decoded, merged, extracted>>

Drivers == {"video", "batch", "playlist"}

RefsOf(d)  == IF d = "video" THEN VideoRefs ELSE BatchRefs
InfosOf(d) == IF d = "video" THEN Infos ELSE BatchInfos

\* The reference lists a request can carry.
RequestsOf(d) ==
    IF d = "video" THEN {<<r>> : r \in VideoRefs}
    ELSE UNION {[1..n -> BatchRefs] : n \in 1..MaxBatch}

NoRet == [text |-> <<>>, kind |-> "None"]
NoResponse == [status |-> "None"]

Call(op, url, res) == [op |-> op, url |-> url, res |-> res]

Init ==
    /\ driver \in Drivers
    /\ video_urls \in RequestsOf(driver)
    /\ idx = 0
    /\ results = <<>>
    /\ errors = <<>>
    /\ response = NoResponse
    /\ pc = "loop"
    /\ video_url = NoneUrl
    /\ metadata = NewMetadata(NoneUrl)
    /\ infoA = NoInfo
    /\ rate_limited = FALSE
    /\ ip_blocked = FALSE
    /\ candidates = <<>>
    /\ transcript_text = <<>>
    /\ ret = NoRet
    /\ calls = <<>>
    /\ session = "none"
    /\ vtt = <<>>
    /\ decoded = <<>>
    /\ merged = <<>>
    /\ extracted = NoneStr

----------------------------------------------------------------------------
\* get_transcript

\* The session is left open when get_transcript returns.
Return_NoClose(text, kind) ==
    /\ pc' = "returned"
    /\ ret' = [text |-> text, kind |-> kind]
    /\ UNCHANGED session

\* A return statement of get_transcript inside the try block: the finally
\* clause closes the session.
Return(text, kind) ==
    /\ pc' = "returned"
    /\ ret' = [text |-> text, kind |-> kind]
    /\ session' = "closed"

\* The session is built before the reference is checked.
Validate_SessionFirst(url) ==
    IF ~is_valid_youtube_url(url)
    THEN [pc |-> "returned", session |-> "open",
          ret |-> [text |-> INVALID_URL_ERROR, kind |-> "InvalidUrl"]]
    ELSE [pc |-> "strategyA", session |-> "open", ret |-> NoRet]

\* Lines 167-173: an invalid reference is answered at once; a valid one gets
\* its session.
Validate(url) ==
    IF ~is_valid_youtube_url(url)
    THEN [pc |-> "returned", session |-> "none",
          ret |-> [text |-> INVALID_URL_ERROR, kind |-> "InvalidUrl"]]
    ELSE [pc |-> "strategyA", session |-> "open", ret |-> NoRet]

\* Lines 159-176: the driver calls get_transcript for its next reference.
CallGetTranscript ==
    /\ pc = "loop"
    /\ idx < Len(video_urls)
    /\ idx' = idx + 1
    /\ video_url' = video_urls[idx + 1]
    /\ metadata' = NewMetadata(video_urls[idx + 1])
    /\ infoA' = NoInfo
    /\ rate_limited' = FALSE
    /\ ip_blocked' = FALSE
    /\ candidates' = <<>>
    /\ transcript_text' = <<>>
    /\ calls' = <<>>
    /\ pc' = Validate(video_urls[idx + 1]).pc
    /\ ret' = Validate(video_urls[idx + 1]).ret
    /\ session' = Validate(video_urls[idx + 1]).session
    /\ UNCHANGED <<dec, driver, video_urls, results, errors, response>>

\* The IP-blocked flag is tested before the rate-limit flag.
FinalError_IpBlockedFirst(rl, ipb) ==
    IF ipb THEN [text |-> IP_BLOCKED_ERROR, kind |-> "IpBlocked"]
    ELSE IF rl THEN [text |-> RATE_LIMIT_ERROR, kind |-> "RateLimited"]
    ELSE [text |-> NO_CAPTIONS_ERROR, kind |-> "NoCaptionsAvailable"]

\* Lines 219-237 up to the metadata-only fetch: which error is returned.
FinalError(rl, ipb) ==
    IF rl THEN [text |-> RATE_LIMIT_ERROR, kind |-> "RateLimited"]
    ELSE IF ipb THEN [text |-> IP_BLOCKED_ERROR, kind |-> "IpBlocked"]
    ELSE [text |-> NO_CAPTIONS_ERROR, kind |-> "NoCaptionsAvailable"]

\* Lines 184-189: does the orchestrator return Strategy A's text?
AcceptsA(text) == text # <<>> /\ strip(text) # <<>> /\ ~is_suspect_content(text)

\* Lines 181-191: get_transcript_via_yt_dlp returned (text, rl).
StrategyAReturns(text, rl) ==
    /\ rate_limited' = rl
    /\ IF AcceptsA(text)
       THEN Return(strip(text), "Success")
       ELSE pc' = "strategyB" /\ UNCHANGED <<ret, session>>

LANGS == <<"en", "en-US", "en-GB">>
ACCEPTED_EXT == {"vtt", "srv1", "srv2", "srv3"}

\* The tracks of one list that lines 300-306 (333-339) reach a GET for.
TracksOf(captions, list) ==
    LET OfLang(lang) ==
            IF lang \in DOMAIN captions
            THEN LET ok == SelectSeq(captions[lang],
                               LAMBDA t : t.ext \in ACCEPTED_EXT /\ Truthy(t.url))
                 IN  [i \in DOMAIN ok |->
                         [list |-> list, lang |-> lang, url |-> ok[i].url]]
            ELSE <<>>
    IN  OfLang(LANGS[1]) \o OfLang(LANGS[2]) \o OfLang(LANGS[3])

\* Manual subtitles are visited before automatic captions.
Candidates_SubtitlesFirst(info) ==
    TracksOf(info.subtitles, "subs") \o TracksOf(info.automatic_captions, "auto")

\* Lines 300-306, 333-339: the tracks Strategy A fetches, in order.
Candidates(info) ==
    TracksOf(info.automatic_captions, "auto") \o TracksOf(info.subtitles, "subs")

\* The info's fields are not merged when the lookup returns.
StrategyA_Info_NoMerge ==
    /\ pc = "strategyA"
    /\ \/ \E info \in InfosOf(driver) :
            /\ calls' = Append(calls, Call("info", "", "ok"))
            /\ infoA' = info
            /\ candidates' = Candidates(info)
            /\ pc' = "tracks"
            /\ UNCHANGED <<metadata, rate_limited, ret, session>>
       \/ /\ calls' = Append(calls, Call("info", "", "raise"))
          /\ StrategyAReturns(<<>>, FALSE)
          /\ UNCHANGED <<metadata, infoA, candidates>>
    /\ UNCHANGED <<dec, drv, video_url, ip_blocked, transcript_text>>

\* Lines 289-298 (and 361-363): the info lookup of Strategy A.
StrategyA_Info ==
    /\ pc = "strategyA"
    /\ \/ \E info \in InfosOf(driver) :
            /\ calls' = Append(calls, Call("info", "", "ok"))
            /\ metadata' = update_metadata_from_info(info, metadata)
            /\ infoA' = info
            /\ candidates' = Candidates(info)
            /\ pc' = "tracks"
            /\ UNCHANGED <<rate_limited, ret, session>>
       \/ /\ calls' = Append(calls, Call("info", "", "raise"))
          /\ StrategyAReturns(<<>>, FALSE)
          /\ UNCHANGED <<metadata, infoA, candidates>>
    /\ UNCHANGED <<dec, drv, video_url, ip_blocked, transcript_text>>

\* What a caption GET answered, as the log records it.
AnswerClass(answer) ==
    IF answer.type # "ok" THEN IF answer = HTTPError("429") THEN "429" ELSE "error"
    ELSE IF answer.body = <<>> \/ startswith(answer.body, <<"#EXTM3U">>) THEN "skipped"
    ELSE IF vtt_to_text(answer.body) = <<>> THEN "empty"
    ELSE IF is_suspect_content(vtt_to_text(answer.body)) THEN "suspect"
    ELSE "ok"

Continue == [act |-> "continue", text |-> <<>>, rate_limited |-> FALSE]

\* Suspect content is taken for a rate-limit signal and ends the strategy.
FetchResult_SuspectAborts(answer) ==
    IF answer.type = "HTTPError"
    THEN IF answer.status # "None" /\ answer.status = "429"
         THEN [act |-> "return", text |-> <<>>, rate_limited |-> TRUE]
         ELSE Continue
    ELSE IF answer.type # "ok" THEN Continue
    ELSE IF answer.body = <<>> \/ startswith(answer.body, <<"#EXTM3U">>) THEN Continue
    ELSE LET cleaned == vtt_to_text(answer.body)
         IN  IF cleaned # <<>> /\ ~is_suspect_content(cleaned)
             THEN [act |-> "return", text |-> cleaned, rate_limited |-> FALSE]
             ELSE IF cleaned # <<>>
             THEN [act |-> "return", text |-> <<>>, rate_limited |-> TRUE]
             ELSE Continue

\* HTTP 429 is handled like any other HTTP error: the next track is tried.
FetchResult_429Continues(answer) ==
    IF answer.type # "ok" THEN Continue
    ELSE IF answer.body = <<>> \/ startswith(answer.body, <<"#EXTM3U">>) THEN Continue
    ELSE LET cleaned == vtt_to_text(answer.body)
         IN  IF cleaned # <<>> /\ ~is_suspect_content(cleaned)
             THEN [act |-> "return", text |-> cleaned, rate_limited |-> FALSE]
             ELSE Continue

\* An exception other than HTTPError leaves the loops and ends the strategy.
FetchResult_ExceptionAborts(answer) ==
    IF answer.type = "HTTPError"
    THEN IF answer.status # "None" /\ answer.status = "429"
         THEN [act |-> "return", text |-> <<>>, rate_limited |-> TRUE]
         ELSE Continue
    ELSE IF answer.type # "ok"
    THEN [act |-> "return", text |-> <<>>, rate_limited |-> FALSE]
    ELSE IF answer.body = <<>> \/ startswith(answer.body, <<"#EXTM3U">>) THEN Continue
    ELSE LET cleaned == vtt_to_text(answer.body)
         IN  IF cleaned # <<>> /\ ~is_suspect_content(cleaned)
             THEN [act |-> "return", text |-> cleaned, rate_limited |-> FALSE]
             ELSE Continue

\* Lines 307-327 (340-360): one caption GET and what follows from its answer:
\* the next track is tried, or the strategy returns (text, rate_limited).
FetchResult(answer) ==
    IF answer.type = "HTTPError"
    THEN IF answer.status # "None" /\ answer.status = "429"
         THEN [act |-> "return", text |-> <<>>, rate_limited |-> TRUE]
         ELSE Continue
    ELSE IF answer.type # "ok" THEN Continue
    ELSE IF answer.body = <<>> \/ startswith(answer.body, <<"#EXTM3U">>) THEN Continue
    ELSE LET cleaned == vtt_to_text(answer.body)
         IN  IF cleaned # <<>> /\ ~is_suspect_content(cleaned)
             THEN [act |-> "return", text |-> cleaned, rate_limited |-> FALSE]
             ELSE Continue

GetAnswers == GetExceptions \cup {[type |-> "ok", body |-> b] : b \in Bodies}

\* Lines 311-314: the log entry of a GET; one whose body is usable also records
\* the text it decodes to.
GetCall(url, answer) ==
    IF AnswerClass(answer) = "ok"
    THEN [op |-> "get", url |-> url, res |-> "ok", text |-> vtt_to_text(answer.body)]
    ELSE Call("get", url, AnswerClass(answer))

\* The loop does not move on to the next track.
StrategyA_Fetch_SameTrack ==
    /\ pc = "tracks"
    /\ candidates # <<>>
    /\ \E answer \in GetAnswers :
           LET r == FetchResult(answer)
           IN  /\ calls' = Append(calls, GetCall(Head(candidates).url, answer))
               /\ UNCHANGED candidates
               /\ IF r.act = "return"
                  THEN StrategyAReturns(r.text, r.rate_limited)
                  ELSE UNCHANGED <<pc, rate_limited, ret, session>>
    /\ UNCHANGED <<dec, drv, video_url, metadata, infoA, ip_blocked, transcript_text>>

\* Lines 300-360: the GET of the next candidate track.
StrategyA_Fetch ==
    /\ pc = "tracks"
    /\ candidates # <<>>
    /\ \E answer \in GetAnswers :
           LET r == FetchResult(answer)
           IN  /\ calls' = Append(calls, GetCall(Head(candidates).url, answer))
               /\ candidates' = Tail(candidates)
               /\ IF r.act = "return"
                  THEN StrategyAReturns(r.text, r.rate_limited)
                  ELSE UNCHANGED <<pc, rate_limited, ret, session>>
    /\ UNCHANGED <<dec, drv, video_url, metadata, infoA, ip_blocked, transcript_text>>

\* Line 363: no track is left.
StrategyA_Exhausted ==
    /\ pc = "tracks"
    /\ candidates = <<>>
    /\ StrategyAReturns(<<>>, FALSE)
    /\ UNCHANGED <<dec, drv, video_url, metadata, infoA, ip_blocked, candidates,
                   transcript_text, calls>>

\* The except clause for RequestBlocked is missing.
api_handler_NoRequestBlocked(exc) ==
    CASE exc \in {"TranscriptsDisabled", "NoTranscriptFound"} -> "nothing"
      [] exc = "IpBlocked" -> "ip_blocked"
      [] OTHER -> "nothing"

\* Lines 208-217: the except clauses around the transcript-service call.
api_handler(exc) ==
    CASE exc \in {"TranscriptsDisabled", "NoTranscriptFound"} -> "nothing"
      [] exc = "IpBlocked" -> "ip_blocked"
      [] exc = "RequestBlocked" -> "ip_blocked"
      [] OTHER -> "nothing"

\* fetch_transcript_via_api: the chunks' texts joined by single spaces, stripped.
fetch_transcript_via_api(entries) == strip(join(<<" ">>, entries))

\* What the transcript service answered, as the log records it.
EntriesClass(entries) ==
    IF strip(join(<<" ">>, entries)) = <<>> THEN "empty"
    ELSE IF is_suspect_content(join(<<" ">>, entries)) THEN "suspect"
    ELSE "ok"

\* The suspect-content test on Strategy B's text is missing.
AcceptsB_NoSuspectCheck(text) == text # <<>>

\* Lines 198-202: does the orchestrator return Strategy B's text?
AcceptsB(text) == text # <<>> /\ ~is_suspect_content(text)

\* The metadata-only fetch is made whether or not the title is known.
ToFinal_AlwaysFetch(ipb) ==
    /\ ip_blocked' = ipb
    /\ pc' = "metadata_only"
    /\ UNCHANGED <<ret, session>>

\* Lines 219-237: the flags are set; the metadata-only fetch is made only
\* while the title is None.
ToFinal(ipb) ==
    /\ ip_blocked' = ipb
    /\ IF metadata.title = NoneStr
       THEN pc' = "metadata_only" /\ UNCHANGED <<ret, session>>
       ELSE LET e == FinalError(rate_limited, ipb)
            IN  Return(e.text, e.kind)

\* Line 195: Strategy B asks the transcript service only for a non-empty id.
CallsService_Always(video_id) == TRUE
CallsService(video_id) == video_id # ""

\* Lines 193-217, and 219-237 when no metadata fetch is due.
StrategyB ==
    /\ pc = "strategyB"
    /\ LET video_id == extract_video_id(video_url)
       IN  IF ~CallsService(video_id)
           THEN /\ ToFinal(ip_blocked)
                /\ UNCHANGED <<calls, transcript_text>>
           ELSE \/ \E exc \in ApiExceptions :
                     /\ calls' = Append(calls, Call("api", video_id, exc))
                     /\ UNCHANGED transcript_text
                     /\ IF api_handler(exc) = "escape"
                        THEN /\ Return(<<>>, "Exception")
                             /\ UNCHANGED ip_blocked
                        ELSE ToFinal(api_handler(exc) = "ip_blocked")
                \/ \E entries \in ApiEntries :
                     LET text == fetch_transcript_via_api(entries)
                     IN  /\ calls' = Append(calls,
                                Call("api", video_id, EntriesClass(entries)))
                         /\ IF AcceptsB(text)
                            THEN /\ UNCHANGED ip_blocked
                                 /\ IF metadata.title = NoneStr
                                    THEN /\ pc' = "backfill"
                                         /\ transcript_text' = text
                                         /\ UNCHANGED <<ret, session>>
                                    ELSE /\ Return(strip(text), "Success")
                                         /\ UNCHANGED transcript_text
                            ELSE /\ ToFinal(ip_blocked)
                                 /\ UNCHANGED transcript_text
    /\ UNCHANGED <<dec, drv, video_url, metadata, infoA, rate_limited, candidates>>

\* An info lookup that raises.
InfoError == [raise |-> "DownloadError"]

InfoAnswers(d) == InfosOf(d) \cup {InfoError}

\* The lookup's exception is not caught.
fetch_video_metadata_Unguarded(answer) == answer

\* Lines 147-152: the lookup's exception is caught and None returned.
fetch_video_metadata(answer) == IF answer = InfoError THEN NoInfo ELSE answer

\* "info = fetch_video_metadata(...); if info: update_metadata_from_info".
MetadataFetch(info) ==
    /\ calls' = Append(calls,
           Call("info", "", IF info = NoInfo \/ info = InfoError THEN "none" ELSE "ok"))
    /\ metadata' = IF info = NoInfo \/ info = InfoError THEN metadata
                   ELSE update_metadata_from_info(info, metadata)

\* Lines 203-207: the supplementary fetch after Strategy B succeeded.  An
\* exception leaving fetch_video_metadata would be caught at line 216.
Backfill ==
    /\ pc = "backfill"
    /\ \E answer \in InfoAnswers(driver) :
           LET info == fetch_video_metadata(answer)
           IN  /\ MetadataFetch(info)
               /\ IF info = InfoError
                  THEN pc' = "metadata_only" /\ UNCHANGED <<ret, session>>
                  ELSE Return(strip(transcript_text), "Success")
    /\ UNCHANGED <<dec, drv, video_url, infoA, rate_limited, ip_blocked, candidates,
                   transcript_text>>

\* Lines 220-224, 226-230, 232-237: the best-effort fetch before a failure.
\* No except clause encloses these calls.
MetadataOnly ==
    /\ pc = "metadata_only"
    /\ \E answer \in InfoAnswers(driver) :
           LET info == fetch_video_metadata(answer)
               e    == FinalError(rate_limited, ip_blocked)
           IN  /\ MetadataFetch(info)
               /\ IF info = InfoError
                  THEN Return(<<>>, "Exception")
                  ELSE Return(e.text, e.kind)
    /\ UNCHANGED <<dec, drv, video_url, infoA, rate_limited, ip_blocked, candidates,
                   transcript_text>>

----------------------------------------------------------------------------
\* The drivers (app.py)

is_transcript_error(transcript) == startswith(lower(strip(transcript)), <<"error:">>)

\* Answers of pytube's YouTube(video_url): none (an exception) or its fields.
NoYt == [none |-> TRUE]
PytubeAnswers ==
    { NoYt, [title |-> "P", author |-> "PA", length |-> SomeInt(30), watch_url |-> R_watch] }

\* What summarize_transcript yields: a JSON object with an "error" key, text
\* that is no JSON, notes without or with a metadata object, or an exception.
SummarizerAnswers == {"error_json", "bad_json", "notes", "notes_meta", "raise"}
NotesMetadata == [title |-> "S", channel |-> NoneStr, duration |-> NoneStr]

\* Lines 169-184 (92-105, 292-305): the title, with pytube as a fallback.
WithTitle(md, url, yt, fallback) ==
    LET md1 == IF Truthy(md.title) \/ yt = NoYt THEN md
               ELSE [md EXCEPT !.title = Or(md.title, yt.title),
                               !.channel = Or(md.channel, yt.author),
                               !.duration = Or(md.duration, format_duration(yt.length)),
                               !.url = OrUrl(md.url, yt.watch_url)]
        video_title == IF Truthy(md.title) THEN md.title
                       ELSE IF yt = NoYt THEN fallback ELSE yt.title
    IN  [md1 EXCEPT !.title = Or(md1.title, video_title)]

\* Lines 198-203 (123-128, 320-325): the notes' metadata override the fields.
WithNotes(md, answer) ==
    IF answer = "notes_meta"
    THEN [md EXCEPT !.title = Or(NotesMetadata.title, md.title),
                    !.channel = Or(NotesMetadata.channel, md.channel),
                    !.duration = Or(NotesMetadata.duration, md.duration)]
    ELSE md

\* The loop stops at the first failed acquisition, whatever its message.
Breaks_Always(error_message) == TRUE

\* The loop stops at the first message other than the two blocking ones only.
Breaks_RateLimitOnly(error_message) == error_message = RATE_LIMIT_ERROR

\* Lines 163-164 (286-287): the circuit breaker.
Breaks(error_message) == error_message \in {RATE_LIMIT_ERROR, IP_BLOCKED_ERROR}

ErrorEntry(i, url, error, md) ==
    [i |-> i, video_url |-> url, error |-> error, metadata |-> md]

\* A summary that is not valid JSON leaves no entry in either list.
LoopBody_DropsParseFailure(res, errs, yt, answer, fallback) ==
    LET transcript == ret.text
    IN  IF ret.kind = "Exception"
        THEN [results |-> res, break |-> FALSE,
              errors |-> Append(errs, [i |-> idx, video_url |-> video_url,
                                       error |-> <<"exception">>])]
        ELSE IF transcript = <<>> \/ is_transcript_error(transcript)
        THEN LET error_message ==
                     IF is_transcript_error(transcript) THEN strip(transcript)
                     ELSE <<"Failed to retrieve transcript">>
             IN  [results |-> res,
                  errors |-> Append(errs,
                                ErrorEntry(idx, video_url, error_message, metadata)),
                  break |-> Breaks(error_message)]
        ELSE LET md == WithTitle(metadata, video_url, yt, fallback)
             IN  CASE answer = "raise" ->
                        [results |-> res, break |-> FALSE,
                         errors |-> Append(errs, [i |-> idx, video_url |-> video_url,
                                                  error |-> <<"exception">>])]
                   [] answer = "error_json" ->
                        [results |-> res, break |-> FALSE,
                         errors |-> Append(errs,
                             ErrorEntry(idx, video_url, <<"summarizer error">>, md))]
                   [] answer = "bad_json" ->
                        [results |-> res, break |-> FALSE, errors |-> errs]
                   [] OTHER ->
                        [errors |-> errs, break |-> FALSE,
                         results |-> Append(res,
                             [i |-> idx, video_url |-> video_url,
                              video_title |-> WithNotes(md, answer).title,
                              metadata |-> WithNotes(md, answer)])]

\* Lines 155-221 (278-343): the body of the loop for one returned acquisition.
\* It yields the lists and whether the loop breaks.
LoopBody(res, errs, yt, answer, fallback) ==
    LET transcript == ret.text
    IN  IF ret.kind = "Exception"
        THEN [results |-> res, break |-> FALSE,
              errors |-> Append(errs, [i |-> idx, video_url |-> video_url,
                                       error |-> <<"exception">>])]
        ELSE IF transcript = <<>> \/ is_transcript_error(transcript)
        THEN LET error_message ==
                     IF is_transcript_error(transcript) THEN strip(transcript)
                     ELSE <<"Failed to retrieve transcript">>
             IN  [results |-> res,
                  errors |-> Append(errs,
                                ErrorEntry(idx, video_url, error_message, metadata)),
                  break |-> Breaks(error_message)]
        ELSE LET md == WithTitle(metadata, video_url, yt, fallback)
             IN  CASE answer = "raise" ->
                        [results |-> res, break |-> FALSE,
                         errors |-> Append(errs, [i |-> idx, video_url |-> video_url,
                                                  error |-> <<"exception">>])]
                   [] answer = "error_json" ->
                        [results |-> res, break |-> FALSE,
                         errors |-> Append(errs,
                             ErrorEntry(idx, video_url, <<"summarizer error">>, md))]
                   [] answer = "bad_json" ->
                        [results |-> res, break |-> FALSE,
                         errors |-> Append(errs,
                             ErrorEntry(idx, video_url,
                                        <<"Failed to parse AI response">>, md))]
                   [] OTHER ->
                        [errors |-> errs, break |-> FALSE,
                         results |-> Append(res,
                             [i |-> idx, video_url |-> video_url,
                              video_title |-> WithNotes(md, answer).title,
                              metadata |-> WithNotes(md, answer)])]

\* The loop goes on, or the report is sent (lines 223-231, 345-355).
LoopStep(body) ==
    /\ results' = body.results
    /\ errors' = body.errors
    /\ IF body.break \/ idx = Len(video_urls)
       THEN /\ pc' = "responded"
            /\ response' = [status |-> "200", total |-> Len(video_urls),
                            successful |-> Len(body.results),
                            failed |-> Len(body.errors)]
       ELSE /\ pc' = "loop"
            /\ UNCHANGED response
    /\ UNCHANGED <<dec, driver, video_urls, idx, acq>>

process_batch ==
    /\ driver = "batch"
    /\ pc = "returned"
    /\ \E yt \in PytubeAnswers, answer \in SummarizerAnswers :
           LoopStep(LoopBody(results, errors, yt, answer, "Video " \o Dec(idx)))

process_playlist ==
    /\ driver = "playlist"
    /\ pc = "returned"
    /\ \E yt \in PytubeAnswers, answer \in SummarizerAnswers :
           LoopStep(LoopBody(results, errors, yt, answer,
                             "Playlist Video " \o Dec(idx)))

\* Only the rate-limit message is answered with 429.
status_code_RateLimitOnly(error_message) ==
    IF error_message = RATE_LIMIT_ERROR THEN "429" ELSE "500"

\* Lines 79-82: the status of a failed acquisition.
status_code(error_message) ==
    IF error_message \in {RATE_LIMIT_ERROR, IP_BLOCKED_ERROR} THEN "429" ELSE "500"

\* Lines 74-134: the single-video endpoint.  summarized tells whether
\* clean_transcript and summarize_transcript were called.
VideoResponse(yt, answer) ==
    LET transcript == ret.text
    IN  IF ret.kind = "Exception"
        THEN [status |-> "500", error |-> <<"exception">>, summarized |-> FALSE]
        ELSE IF transcript = <<>> \/ is_transcript_error(transcript)
        THEN IF is_transcript_error(transcript)
             THEN [status |-> status_code(strip(transcript)),
                   error |-> strip(transcript), metadata |-> metadata,
                   summarized |-> FALSE]
             ELSE [status |-> "500",
                   error |-> <<"Failed to retrieve transcript.">>,
                   metadata |-> metadata, summarized |-> FALSE]
        ELSE LET md == WithTitle(metadata, video_url, yt, "Unknown Video")
             IN  CASE answer = "raise" ->
                        [status |-> "500", error |-> <<"exception">>, summarized |-> TRUE]
                   [] answer = "error_json" ->
                        [status |-> "500", error |-> <<"summarizer error">>,
                         summarized |-> TRUE]
                   [] answer = "bad_json" ->
                        [status |-> "500", error |-> <<"Failed to parse summary">>,
                         summarized |-> TRUE]
                   [] OTHER ->
                        [status |-> "200", error |-> <<>>,
                         metadata |-> WithNotes(md, answer), summarized |-> TRUE]

process_video ==
    /\ driver = "video"
    /\ pc = "returned"
    /\ \E yt \in PytubeAnswers, answer \in SummarizerAnswers :
           response' = VideoResponse(yt, answer)
    /\ pc' = "responded"
    /\ UNCHANGED <<dec, driver, video_urls, idx, results, errors, acq>>

----------------------------------------------------------------------------

Next ==
    \/ CallGetTranscript
    \/ StrategyA_Info
    \/ StrategyA_Fetch
    \/ StrategyA_Exhausted
    \/ StrategyB
    \/ Backfill
    \/ MetadataOnly
    \/ process_video
    \/ process_batch
    \/ process_playlist

Spec == Init /\ [][Next]_vars

----------------------------------------------------------------------------
\* The decoder on its own: vtt_to_text applied to a caption text, and again to
\* what it returned.

MaxVttLen == 4

VttTokens == {"a", "b", " ", "\n", "<", ">", "7", "WEBVTT", "-->"}

VttTexts == UNION {[1..n -> VttTokens] : n \in 0..MaxVttLen}

InitDecoder ==
    /\ driver = "video"
    /\ video_urls = <<R_watch>>
    /\ idx = 0
    /\ results = <<>>
    /\ errors = <<>>
    /\ response = NoResponse
    /\ pc = "vtt_to_text"
    /\ video_url = NoneUrl
    /\ metadata = NewMetadata(NoneUrl)
    /\ infoA = NoInfo
    /\ rate_limited = FALSE
    /\ ip_blocked = FALSE
    /\ candidates = <<>>
    /\ transcript_text = <<>>
    /\ ret = NoRet
    /\ calls = <<>>
    /\ session = "none"
    /\ vtt \in VttTexts
    /\ decoded = <<>>
    /\ merged = <<>>
    /\ extracted = NoneStr

Decode ==
    /\ pc = "vtt_to_text"
    /\ decoded = <<>>
    /\ decoded' = <<vtt_to_text(vtt)>>
    /\ UNCHANGED <<drv, acq, pc, vtt, merged, extracted>>

DecodeAgain ==
    /\ pc = "vtt_to_text"
    /\ Len(decoded) = 1
    /\ decoded' = Append(decoded, vtt_to_text(decoded[1]))
    /\ UNCHANGED <<drv, acq, pc, vtt, merged, extracted>>

NextDecoder ==
    \/ Decode
    \/ DecodeAgain

SpecDecoder == InitDecoder /\ [][NextDecoder]_vars

----------------------------------------------------------------------------
\* The merge on its own: update_metadata_from_info applied to one metadata
\* dict with a sequence of infos.

MaxMerges == 3

\* What "not info" rejects, and info dicts with their metadata fields.
MergeInfos == {NoInfo} \cup Metas

InitMerge ==
    /\ driver = "video"
    /\ video_urls = <<R_watch>>
    /\ idx = 0
    /\ results = <<>>
    /\ errors = <<>>
    /\ response = NoResponse
    /\ pc = "update_metadata_from_info"
    /\ video_url = R_watch
    /\ metadata = NewMetadata(R_watch)
    /\ infoA = NoInfo
    /\ rate_limited = FALSE
    /\ ip_blocked = FALSE
    /\ candidates = <<>>
    /\ transcript_text = <<>>
    /\ ret = NoRet
    /\ calls = <<>>
    /\ session = "none"
    /\ vtt = <<>>
    /\ decoded = <<>>
    /\ merged = <<>>
    /\ extracted = NoneStr

Merge ==
    /\ pc = "update_metadata_from_info"
    /\ Len(merged) < MaxMerges
    /\ \E info \in MergeInfos :
          /\ metadata' = update_metadata_from_info(info, metadata)
          /\ merged' = Append(merged, info)
    /\ UNCHANGED <<drv, pc, video_url, infoA, rate_limited, ip_blocked, candidates,
                   transcript_text, ret, calls, session, vtt, decoded, extracted>>

NextMerge == Merge

SpecMerge == InitMerge /\ [][NextMerge]_vars

----------------------------------------------------------------------------
\* The URL check and the id extraction on their own.

ExtractRefs ==
    { Ref(scheme, prefix, host, path, v) :
        scheme \in {"", "http://", "https://", "ftp://"},
        prefix \in {"", "www.", "m."},
        host \in {"youtube.com", "youtu.be", "youtube", "vimeo.com", "youtube.evil.org"},
        path \in {<<>>, <<"">>, <<"watch">>, <<"abc123">>, <<"embed", "abc123">>,
                  <<"v", "abc123">>, <<"embed">>, <<"x", "v", "abc123">>},
        v \in {NoneStr, "", "abc123"} }

InitExtract ==
    /\ driver = "video"
    /\ video_urls = <<R_watch>>
    /\ idx = 0
    /\ results = <<>>
    /\ errors = <<>>
    /\ response = NoResponse
    /\ pc = "extract_video_id"
    /\ video_url \in ExtractRefs
    /\ metadata = NewMetadata(NoneUrl)
    /\ infoA = NoInfo
    /\ rate_limited = FALSE
    /\ ip_blocked = FALSE
    /\ candidates = <<>>
    /\ transcript_text = <<>>
    /\ ret = NoRet
    /\ calls = <<>>
    /\ session = "none"
    /\ vtt = <<>>
    /\ decoded = <<>>
    /\ merged = <<>>
    /\ extracted = NoneStr

Extract ==
    /\ pc = "extract_video_id"
    /\ extracted' = extract_video_id(video_url)
    /\ pc' = "extracted"
    /\ UNCHANGED <<drv, acq, vtt, decoded, merged>>

NextExtract == Extract

SpecExtract == InitExtract /\ [][NextExtract]_vars

----------------------------------------------------------------------------
\* Properties

\* The acquisition last started has returned.
Returned == idx > 0 /\ pc \in {"returned", "loop", "responded"}

Gets == {i \in DOMAIN calls : calls[i].op = "get"}
Apis == {i \in DOMAIN calls : calls[i].op = "api"}
InfosOk == {i \in DOMAIN calls : calls[i].op = "info" /\ calls[i].res = "ok"}

\* C1: a reference that fails the URL-shape check is answered with
\* Failure{InvalidUrl} at once: no session is built and no network operation
\* (info lookup, caption GET, transcript-service call) is made.
C1_InvalidUrlNoNetwork ==
    (idx > 0 /\ ~is_valid_youtube_url(video_url)) =>
        /\ pc \in {"returned", "loop", "responded"}
        /\ ret = [text |-> INVALID_URL_ERROR, kind |-> "InvalidUrl"]
        /\ calls = <<>>
        /\ session = "none"

C1_Witness ==
    /\ pc = "returned"
    /\ video_url.host = "youtube.com"
    /\ ~is_valid_youtube_url(video_url)
    /\ ret.kind = "InvalidUrl"

\* C2: once a caption GET of Strategy A has answered 429, the transcript
\* service of Strategy B is not called later in the same acquisition.
C2_NoStrategyBAfter429 ==
    \A i \in Gets : \A j \in Apis : calls[i].res = "429" => j < i

\* C3: an acquisition in which a caption GET answered 429 ends in
\* Failure{RateLimited}, never in Success or another failure kind.
C3_RateLimitedOutcome ==
    (Returned /\ \E i \in Gets : calls[i].res = "429") =>
        ret = [text |-> RATE_LIMIT_ERROR, kind |-> "RateLimited"]

\* C4: when no rate limit was signalled and the transcript service raises
\* IpBlocked or RequestBlocked, nothing but at most one metadata lookup
\* follows, and the acquisition ends in Failure{IpBlocked}.
C4_IpBlockedTerminal ==
    \A i \in Apis :
        (calls[i].res \in {"IpBlocked", "RequestBlocked"} /\ ~rate_limited) =>
            /\ pc = "metadata_only" \/ Returned
            /\ Returned => ret = [text |-> IP_BLOCKED_ERROR, kind |-> "IpBlocked"]
            /\ \A j \in DOMAIN calls :
                   j > i => (j = i + 1 /\ calls[j].op = "info")

C4_Witness ==
    /\ pc = "returned"
    /\ ~rate_limited
    /\ ret.kind = "IpBlocked"
    /\ \E i \in Apis : calls[i].res = "RequestBlocked" /\ Len(calls) = i + 1
    /\ Gets # {}

ChannelOf(info) == Or(info.uploader, info.channel)

\* C5: when Strategy A signalled no rate limit and the transcript service
\* raises TranscriptsDisabled, NoTranscriptFound or another exception that is
\* not IpBlocked/RequestBlocked, the outcome is Failure{NoCaptionsAvailable},
\* and its metadata holds the title, channel and formatted duration of
\* Strategy A's info lookup, where the lookup gave them.
C5_NoCaptionsOutcome ==
    (/\ Returned
     /\ ~rate_limited
     /\ \E i \in Apis :
            calls[i].res \in {"TranscriptsDisabled", "NoTranscriptFound", "AttributeError"})
    => /\ ret = [text |-> NO_CAPTIONS_ERROR, kind |-> "NoCaptionsAvailable"]
       /\ infoA # NoInfo =>
            /\ Truthy(infoA.title) => metadata.title = infoA.title
            /\ Truthy(ChannelOf(infoA)) => metadata.channel = ChannelOf(infoA)
            /\ format_duration(infoA.duration) # NoneStr =>
                   metadata.duration = format_duration(infoA.duration)

C5_Witness ==
    /\ pc = "returned"
    /\ ret.kind = "NoCaptionsAvailable"
    /\ Gets = {}
    /\ \E i \in Apis : calls[i].res = "NoTranscriptFound"
    /\ infoA # NoInfo
    /\ infoA.uploader = "U"
    /\ metadata.title = "X"
    /\ metadata.channel = "U"
    /\ metadata.duration = "01:05"

\* C6: when every candidate track of Strategy A decoded to suspect content,
\* Strategy A ends without the rate-limit flag and the orchestrator goes on
\* to Strategy B, whose service is called exactly when the video id is not
\* empty.
C6_AllSuspectFallsThrough ==
    (/\ Gets # {}
     /\ \A i \in Gets : calls[i].res = "suspect"
     /\ pc # "tracks")
    => /\ ~rate_limited
       /\ pc = "strategyB" \/ (Apis # {} <=> extract_video_id(video_url) # "")
       /\ ret.kind = "Success" => \E j \in Apis : calls[j].res = "ok"

C6_Witness ==
    /\ Cardinality(Gets) >= 2
    /\ \A i \in Gets : calls[i].res = "suspect"
    /\ pc = "returned"
    /\ Apis # {}

\* C7: the text of every Success is non-empty after trimming and is no
\* suspect content.
C7_SuccessIsGenuine ==
    ret.kind = "Success" =>
        /\ ret.text # <<>>
        /\ strip(ret.text) # <<>>
        /\ ~is_suspect_content(ret.text)

C7_Witness ==
    /\ pc = "returned"
    /\ ret.kind = "Success"
    /\ \E i \in Gets : calls[i].res = "suspect"
    /\ \E j \in Apis : calls[j].res = "ok"

OutcomeKinds == {"Success", "InvalidUrl", "RateLimited", "IpBlocked", "NoCaptionsAvailable"}

\* C8: whatever the collaborators raise, get_transcript returns a Success
\* or a classified Failure; no exception leaves it.
C8_NoExceptionEscapes ==
    /\ ret.kind \in OutcomeKinds \cup {"None"}
    /\ Returned => ret.kind \in OutcomeKinds

C8_Witness ==
    /\ pc = "returned"
    /\ \E i \in Gets : calls[i].res = "error"
    /\ \E j \in Apis : calls[j].res = "AttributeError"
    /\ calls[Len(calls)] = Call("info", "", "none")

\* C9: within one acquisition a merge never changes a title, channel,
\* duration string or source URL that already holds a value.
C9_FirstWriterWins ==
    [][idx' = idx =>
        /\ metadata.title # NoneStr => metadata'.title = metadata.title
        /\ metadata.channel # NoneStr => metadata'.channel = metadata.channel
        /\ metadata.duration # NoneStr => metadata'.duration = metadata.duration
        /\ TruthyUrl(metadata.url) => metadata'.url = metadata.url]_vars

C9_Witness ==
    /\ Cardinality(InfosOk) = 2
    /\ infoA.channel = "Ch"
    /\ metadata.channel = "Ch"
    /\ metadata.title = "Y"
    /\ metadata.url = video_url

Entries == {results[n] : n \in DOMAIN results} \cup {errors[n] : n \in DOMAIN errors}

\* C10: in a batch or playlist, once reference k's acquisition reports
\* RateLimited or IpBlocked the report is sent: no later reference is
\* acquired, the lists hold entries for references 1..k only, and the last
\* error is k's blocking error.
C10_CircuitBreaker ==
    (/\ driver \in {"batch", "playlist"}
     /\ ret.kind \in {"RateLimited", "IpBlocked"}
     /\ pc \in {"loop", "responded"})
    => /\ pc = "responded"
       /\ errors # <<>>
       /\ errors[Len(errors)].i = idx
       /\ errors[Len(errors)].error = ret.text
       /\ {e.i : e \in Entries} = 1..idx
       /\ response.successful + response.failed = idx

C10_Witness ==
    /\ driver = "playlist"
    /\ pc = "responded"
    /\ ret.kind = "IpBlocked"
    /\ idx = 1
    /\ Len(video_urls) = 2
    /\ Len(errors) = 1

C12_SourceUrlIsReference ==
    idx > 0 => metadata.url = video_url

C12_Witness ==
    /\ Returned
    /\ ret.kind = "NoCaptionsAvailable"
    /\ infoA # NoInfo
    /\ TruthyUrl(infoA.webpage_url)
    /\ infoA.webpage_url # video_url
    /\ metadata.url = video_url

\* The fields of an info dict that metadata holds: title and channel as the
\* info gives them, a duration in seconds and, where the info's duration has
\* one, its text.
Carries(md, info) ==
    /\ Truthy(info.title) => md.title = info.title
    /\ Truthy(ChannelOf(info)) => md.channel = ChannelOf(info)
    /\ info.duration # NoneInt => md.duration_seconds # NoneInt
    /\ (info.duration # NoneInt /\ format_duration(info.duration) # NoneStr)
         => md.duration = format_duration(info.duration)

\* C13: a caption track is fetched only after Strategy A's info lookup
\* succeeded, and from that lookup on, through every track fetch and in every
\* outcome that follows, metadata holds the lookup's fields: a failure returns
\* no less metadata than had been accumulated.
C13_MetadataBeforeFetch ==
    /\ Gets # {} => infoA # NoInfo /\ calls[1] = Call("info", "", "ok")
    /\ infoA # NoInfo => Carries(metadata, infoA)

C13_Witness ==
    /\ Returned
    /\ ret.kind = "RateLimited"
    /\ Gets # {}
    /\ infoA.title = "Y"
    /\ metadata.title = "Y"
    /\ metadata.channel = "Ch2"
    /\ metadata.duration = "01:02:05"

\* C14: once Strategy B's text is accepted while the title is unknown, the
\* only thing left is the supplementary metadata fetch, and whether it
\* succeeds or fails the acquisition returns Success with that text.
C14_BackfillFailureHarmless ==
    transcript_text # <<>>
    => \/ pc = "backfill"
       \/ /\ Returned
          /\ ret = [text |-> strip(transcript_text), kind |-> "Success"]
          /\ calls[Len(calls)].op = "info"
          /\ calls[Len(calls) - 1].op = "api"

C14_Witness ==
    /\ Returned
    /\ transcript_text # <<>>
    /\ calls[Len(calls)] = Call("info", "", "none")
    /\ ret.kind = "Success"
    /\ metadata.title = NoneStr

\* C15: for a valid reference whose video id is empty the transcript service
\* is never called and nothing is raised: the outcome is Strategy A's text if
\* it found one, else RateLimited if a track fetch answered 429, else
\* NoCaptionsAvailable.
C15_EmptyIdSkipsService ==
    (idx > 0 /\ is_valid_youtube_url(video_url) /\ extract_video_id(video_url) = "")
    => /\ Apis = {}
       /\ ~ip_blocked
       /\ Returned
            => ret.kind =
                 IF \E i \in Gets : calls[i].res = "ok" THEN "Success"
                 ELSE IF \E i \in Gets : calls[i].res = "429" THEN "RateLimited"
                 ELSE "NoCaptionsAvailable"

C15_Witness ==
    /\ Returned
    /\ video_url = R_noscheme
    /\ extract_video_id(video_url) = ""
    /\ ret.kind = "RateLimited"
    /\ Apis = {}

\* The words of a text, in order: its maximal runs of non-whitespace tokens.
RECURSIVE Words(_)
Words(t) ==
    IF t = <<>> THEN <<>>
    ELSE IF Head(t) \in Whitespace THEN Words(Tail(t))
    ELSE IF Len(t) >= 2 /\ t[2] \notin Whitespace
         THEN <<<<Head(t)>> \o Head(Words(Tail(t)))>> \o Tail(Words(Tail(t)))
         ELSE <<<<Head(t)>>>> \o Words(Tail(t))

\* Words joined by single spaces.
SingleSpaced(w) == join(<<" ">>, w)

\* A "<" with a ">" at least two places after it and no ">" in between.
HasTag(l) ==
    \E i, j \in DOMAIN l :
        /\ l[i] = "<" /\ l[j] = ">" /\ j > i + 1
        /\ \A k \in (i + 1)..(j - 1) : l[k] # ">"

\* No markup tag; blank, or neither header, timing line nor cue index.
PlainLine(l) ==
    /\ ~HasTag(l)
    /\ LET t == strip(l)
       IN  \/ t = <<>>
           \/ /\ t[1] # "WEBVTT"
              /\ \A i \in DOMAIN t : t[i] # "-->"
              /\ \E i \in DOMAIN t : t[i] \notin Digits

Plain(t) == \A i \in DOMAIN splitlines(t) : PlainLine(splitlines(t)[i])

\* Inside every line the words are separated by single spaces.
LinesSingleSpaced(t) ==
    \A i \in DOMAIN splitlines(t) :
        strip(splitlines(t)[i]) = SingleSpaced(Words(splitlines(t)[i]))

\* C16 as stated: on plain caption text vtt_to_text returns the words joined
\* by single spaces, and decoding that result again returns it unchanged.
C16_PlainGivesSingleSpacedWords ==
    (decoded # <<>> /\ Plain(vtt))
    => /\ decoded[1] = SingleSpaced(Words(vtt))
       /\ Len(decoded) = 2 => decoded[2] = decoded[1]

\* C16: on plain caption text vtt_to_text returns the same words in the
\* same order; they are joined by single spaces when the words inside every
\* line are, and decoding the result again returns it unchanged when the text
\* holds no "<" or ">".
C16_DecoderOnPlain ==
    (decoded # <<>> /\ Plain(vtt))
    => /\ Words(decoded[1]) = Words(vtt)
       /\ LinesSingleSpaced(vtt) => decoded[1] = SingleSpaced(Words(vtt))
       /\ (Len(decoded) = 2 /\ \A i \in DOMAIN vtt : vtt[i] \notin {"<", ">"})
            => decoded[2] = decoded[1]

C16_Witness ==
    /\ vtt = <<"a", "\n", " ", "b">>
    /\ Plain(vtt)
    /\ decoded = << <<"a", " ", "b">>, <<"a", " ", "b">> >>

\* C17: once a caption-track fetch of Strategy A is answered with HTTP 429,
\* it is the last fetch of the acquisition whatever tracks remain, the
\* strategy has ended with rate_limited set, and it returned no text: a
\* Success can only carry the transcript service's text.
C17_StopsAt429 ==
    \A i \in Gets :
        calls[i].res = "429"
        => /\ \A j \in Gets : j <= i
           /\ rate_limited
           /\ pc \notin {"strategyA", "tracks"}
           /\ ret.kind = "Success" => \E j \in Apis : calls[j].res = "ok"

C17_Witness ==
    /\ Returned
    /\ Cardinality(Gets) = 2
    /\ calls[3].op = "get"
    /\ calls[3].res = "429"
    /\ candidates # <<>>
    /\ ret.kind = "RateLimited"

\* The places of an info's caption tracks: list (1 automatic, 2 manual),
\* language (1 en, 2 en-US, 3 en-GB) and position in the language's list.
TrackList(info, l) == IF l = 1 THEN info.automatic_captions ELSE info.subtitles
TrackLang(g) == IF g = 1 THEN "en" ELSE IF g = 2 THEN "en-US" ELSE "en-GB"

\* The places holding a track with an accepted format and a URL.
Slots(info) ==
    {s \in UNION {{<<l, g, k>> : k \in DOMAIN TrackList(info, l)[TrackLang(g)]} :
                    <<l, g>> \in {x \in (1..2) \X (1..3) :
                                    TrackLang(x[2]) \in DOMAIN TrackList(info, x[1])}} :
        LET t == TrackList(info, s[1])[TrackLang(s[2])][s[3]]
        IN  t.ext \in {"vtt", "srv1", "srv2", "srv3"} /\ t.url \notin {"", NoneStr}}

SlotBefore(s, t) ==
    \/ s[1] < t[1]
    \/ s[1] = t[1] /\ s[2] < t[2]
    \/ s[1] = t[1] /\ s[2] = t[2] /\ s[3] < t[3]

\* The URLs of those tracks: automatic before manual, en, en-US, en-GB
\* inside a list, list order inside a language.
ExpectedUrls(info) ==
    LET S == Slots(info)
        at(n) == CHOOSE s \in S : Cardinality({t \in S : SlotBefore(t, s)}) = n - 1
    IN  [n \in 1..Cardinality(S) |->
            TrackList(info, at(n)[1])[TrackLang(at(n)[2])][at(n)[3]].url]

\* C18: after a successful info lookup the caption GETs follow the fixed
\* order of the accepted tracks with a URL, one GET per track; a GET whose
\* body decodes to non-empty, non-suspect text is the last one, every GET
\* before it failed that test, and the acquisition returns Success with
\* exactly that decoded text without asking the transcript service.
C18_FirstValidTrackInOrder ==
    infoA # NoInfo
    => LET exp == ExpectedUrls(infoA)
           n   == Cardinality(Gets)
       IN  /\ Gets = 2..(n + 1)
           /\ n <= Len(exp)
           /\ \A k \in 1..n : calls[k + 1].url = exp[k]
           /\ \A i \in Gets : i < n + 1 => calls[i].res \notin {"ok", "429"}
           /\ \A i \in Gets :
                  calls[i].res = "ok"
                  => /\ Returned
                     /\ ret = [text |-> calls[i].text, kind |-> "Success"]
                     /\ Apis = {}

C18_Witness ==
    /\ Returned
    /\ Len(calls) = 4
    /\ calls[2].url = "u1" /\ calls[2].res = "suspect"
    /\ calls[3].url = "u2" /\ calls[3].res = "empty"
    /\ calls[4].url = "u3" /\ calls[4].res = "ok"
    /\ ret = [text |-> <<"Hello", " ", "world">>, kind |-> "Success"]

\* C19: while the latest caption GET of Strategy A failed with an HTTP error
\* other than 429, a timeout or another exception, or returned an empty
\* body or a streaming manifest, rate_limited is not set and the strategy is
\* still in its loops, or it has tried every candidate track and found
\* nothing.
C19_FailedFetchContinues ==
    (/\ infoA # NoInfo
     /\ Gets # {}
     /\ calls[Cardinality(Gets) + 1].res \in {"error", "skipped"})
    => /\ ~rate_limited
       /\ \/ pc = "tracks"
          \/ /\ Cardinality(Gets) = Len(ExpectedUrls(infoA))
             /\ ret.kind = "Success" => \E j \in Apis : calls[j].res = "ok"

C19_Witness ==
    /\ pc = "strategyB"
    /\ Cardinality(Gets) = 3
    /\ calls[2].res = "error"
    /\ calls[3].res = "skipped"
    /\ calls[4].res = "error"
    /\ ~rate_limited

\* The metadata-only fetches: the info lookups after Strategy A's own.
MetaFetches == {i \in DOMAIN calls : i > 1 /\ calls[i].op = "info"}

\* C20: an acquisition makes at most one metadata-only fetch; it is its last
\* network operation, made only when Strategy A's lookup left the title
\* unknown and no caption GET gave Strategy A its text; the outcome kind is
\* the one fixed before the fetch (Success for accepted service text, else by
\* the flags), and a failed fetch leaves metadata as Strategy A left it.
C20_MetadataOnlyFetch ==
    /\ Cardinality(MetaFetches) <= 1
    /\ \A i \in MetaFetches :
          /\ i = Len(calls)
          /\ Returned
          /\ ~(infoA # NoInfo /\ Truthy(infoA.title))
          /\ \A j \in Gets : calls[j].res # "ok"
          /\ ret.kind = IF transcript_text # <<>> THEN "Success"
                        ELSE IF rate_limited THEN "RateLimited"
                        ELSE IF ip_blocked THEN "IpBlocked"
                        ELSE "NoCaptionsAvailable"
          /\ calls[i].res = "none"
               => /\ metadata = update_metadata_from_info(infoA, NewMetadata(video_url))
                  /\ metadata.title = NoneStr

C20_Witness ==
    /\ Returned
    /\ MetaFetches # {}
    /\ calls[Len(calls)] = Call("info", "", "none")
    /\ ret.kind = "IpBlocked"
    /\ infoA # NoInfo
    /\ metadata.channel = "Ch"
    /\ metadata.title = NoneStr

\* The merged infos that carry a duration, and those whose duration has a text.
WithDuration == {i \in DOMAIN merged : merged[i] # NoInfo /\ merged[i].duration # NoneInt}
WithDurationText == {i \in WithDuration : format_duration(merged[i].duration) # NoneStr}

\* C21: after any sequence of merges duration_seconds is the duration of the
\* last merged info that had one (unset if none had), and the duration text
\* is the formatting of the first merged duration that has one (unset if none
\* has).
C21_DurationMerge ==
    pc = "update_metadata_from_info"
    => /\ metadata.duration_seconds =
            IF WithDuration = {} THEN NoneInt
            ELSE merged[CHOOSE i \in WithDuration : \A j \in WithDuration : j <= i].duration
       /\ metadata.duration =
            IF WithDurationText = {} THEN NoneStr
            ELSE format_duration(
                   merged[CHOOSE i \in WithDurationText :
                              \A j \in WithDurationText : i <= j].duration)

C21_Witness ==
    /\ pc = "update_metadata_from_info"
    /\ Len(merged) = 3
    /\ \A i \in DOMAIN merged : merged[i] # NoInfo
    /\ merged[1].duration = SomeInt(0 - 5)
    /\ merged[2].duration = SomeInt(65)
    /\ merged[3].duration = SomeInt(3725)
    /\ metadata.duration_seconds = SomeInt(3725)
    /\ metadata.duration = "01:05"

\* The recognised shapes: short link, watch?v=ID, /embed/ID and /v/ID.
ShortLink(url) ==
    url.host = "youtu.be" /\ Len(url.path) = 1 /\ url.path[1] # "" /\ url.v = NoneStr
WatchLink(url) ==
    url.host = "youtube.com" /\ url.path = <<"watch">> /\ Truthy(url.v)
EmbedLink(url) ==
    /\ url.host = "youtube.com" /\ Len(url.path) = 2 /\ url.v = NoneStr
    /\ url.path[1] \in {"embed", "v"} /\ url.path[2] # ""

IdOf(url) ==
    IF ShortLink(url) THEN url.path[1] ELSE IF WatchLink(url) THEN url.v ELSE url.path[2]

\* C22 as stated: for every reference the URL check accepts in one of the
\* recognised shapes, with or without scheme and www prefix, extract_video_id
\* returns the ID.
C22_ExtractsId ==
    (/\ pc = "extracted"
     /\ is_valid_youtube_url(video_url)
     /\ ShortLink(video_url) \/ WatchLink(video_url) \/ EmbedLink(video_url))
    => extracted = IdOf(video_url)

C24_SessionLifecycle ==
    /\ pc \in {"strategyA", "tracks", "strategyB", "backfill", "metadata_only"}
         => session = "open"
    /\ (Returned /\ is_valid_youtube_url(video_url)) => session = "closed"
    /\ calls # <<>> => session # "none"

C24_Witness ==
    /\ Returned
    /\ ret.kind = "IpBlocked"
    /\ Gets # {}
    /\ Apis # {}
    /\ session = "closed"

\* The signals of one acquisition: a caption fetch answered 429, and the
\* transcript service raising IpBlocked or RequestBlocked.
Signal429 == \E i \in Gets : calls[i].res = "429"
SignalBlocked == \E i \in Apis : calls[i].res \in {"IpBlocked", "RequestBlocked"}

\* C25: an acquisition in which both a 429 from Strategy A and a blocked
\* signal from Strategy B were recorded returns RateLimited, never IpBlocked;
\* and NoCaptionsAvailable is returned only when neither was recorded.
C25_FailurePrecedence ==
    Returned
    => /\ (Signal429 /\ SignalBlocked)
            => /\ rate_limited /\ ip_blocked
               /\ ret = [text |-> RATE_LIMIT_ERROR, kind |-> "RateLimited"]
       /\ ret.kind = "NoCaptionsAvailable" => ~Signal429 /\ ~SignalBlocked

C25_Witness ==
    /\ Returned
    /\ Signal429
    /\ SignalBlocked
    /\ ret.kind = "RateLimited"

\* The stage of a network operation: Strategy A's info lookup, a caption
\* fetch, the transcript service, the metadata-only fetch.
Stage(i) ==
    IF calls[i].op = "get" THEN 2
    ELSE IF calls[i].op = "api" THEN 3
    ELSE IF i = 1 THEN 1 ELSE 4

\* Within one acquisition: no track is fetched twice, the transcript service
\* is called at most once, the info lookup at most twice (Strategy A's and
\* one metadata-only fetch), and the stages follow one another without one
\* being entered again.
AtMostOnce ==
    /\ \A i, j \in Gets : calls[i].url = calls[j].url => i = j
    /\ Cardinality(Apis) <= 1
    /\ Cardinality({i \in DOMAIN calls : calls[i].op = "info"}) <= 2
    /\ Cardinality(MetaFetches) <= 1
    /\ \A i, j \in DOMAIN calls : i < j => Stage(i) <= Stage(j)
    /\ \A i, j \in DOMAIN calls : (i < j /\ Stage(i) = Stage(j)) => Stage(i) = 2

\* How far a running acquisition is from its return: the stages left, then
\* the tracks left.
Rank ==
    CASE pc = "strategyA" -> 5
      [] pc = "tracks" -> 4
      [] pc = "strategyB" -> 3
      [] pc = "backfill" -> 2
      [] pc = "metadata_only" -> 1
      [] OTHER -> 0

\* C26: every acquisition returns, with a terminal outcome: while it runs a
\* step can always be taken (the collaborators answer or raise), and every
\* step takes it to a later stage or leaves fewer tracks to fetch; on the way
\* every track is fetched at most once, the transcript service called at most
\* once, the info lookup at most twice, and no strategy is entered again.
C26_Terminates ==
    /\ []AtMostOnce
    /\ [](Rank > 0 => ENABLED Next)
    /\ [](pc = "returned" => ret.kind \in OutcomeKinds)
    /\ [][Rank > 0 => \/ Rank' < Rank
                      \/ Rank' = Rank /\ Len(candidates') < Len(candidates)]_vars

C26_Witness ==
    /\ pc = "returned"
    /\ Len(calls) = 6
    /\ Cardinality(Gets) = 3
    /\ Cardinality(Apis) = 1
    /\ Cardinality(MetaFetches) = 1
    /\ ret.kind = "NoCaptionsAvailable"

\* The references whose loop body has finished.
Attempted == IF pc \in {"loop", "responded"} THEN idx ELSE idx - 1

\* C27: at every point of a batch or playlist each reference whose loop body
\* has finished has exactly one entry, in results or in errors, both lists
\* follow the input order and hold no other reference; the summary counts
\* the lists, so successful + failed <= total, with equality exactly when
\* the loop reached the last reference.
C27_BatchAccounting ==
    (driver \in {"batch", "playlist"} /\ idx > 0)
    => /\ \A k \in 1..Attempted :
              Cardinality({n \in DOMAIN results : results[n].i = k})
            + Cardinality({n \in DOMAIN errors : errors[n].i = k}) = 1
       /\ \A e \in Entries : e.i \in 1..Attempted /\ e.video_url = video_urls[e.i]
       /\ \A m, n \in DOMAIN errors : m < n => errors[m].i < errors[n].i
       /\ \A m, n \in DOMAIN results : m < n => results[m].i < results[n].i
       /\ pc = "responded"
            => /\ response.total = Len(video_urls)
               /\ response.successful = Len(results)
               /\ response.failed = Len(errors)
               /\ response.successful + response.failed <= response.total
               /\ response.successful + response.failed = response.total
                    <=> idx = Len(video_urls)

C27_Witness ==
    /\ driver = "batch"
    /\ pc = "responded"
    /\ idx = 2
    /\ Len(video_urls) = 2
    /\ Len(results) = 1 /\ results[1].i = 2
    /\ Len(errors) = 1 /\ errors[1].i = 1
    /\ response.successful + response.failed = response.total

\* C28 as stated: a Success outcome, whatever its text, is passed on to
\* cleaning and summarisation and is never reported as an error: the
\* single-video response was summarized, and a batch or playlist has no error
\* entry for that reference carrying the transcript as its message.
C28_SuccessNeverAnError ==
    (ret.kind = "Success" /\ idx > 0)
    => /\ (driver = "video" /\ pc = "responded")
            => response.summarized /\ response.error # ret.text
       /\ (driver \in {"batch", "playlist"} /\ pc \in {"loop", "responded"})
            => \A n \in DOMAIN errors :
                   errors[n].i = idx => errors[n].error # strip(ret.text)

====
